---- MODULE Spec2Model ----
(***************************************************************************)
(* State-machine model of the NATS/JetStream broker adapter               *)
(* (src/broker/nats.go): the natsBroker object, its callers, the          *)
(* per-message callback built by Subscribe and the lifecycle callbacks    *)
(* registered on the connection when the drain option is set.             *)
(*                                                                         *)
(* The NATS client library and server are the environment: their          *)
(* outcomes (a connect that fails, a stream that is absent, a publish     *)
(* that errors, a connection that is lost) are nondeterministic choices.  *)
(***************************************************************************)
EXTENDS Naturals, Sequences, FiniteSets, TLC

\* ------------------------------------------------------------------ bounds
NumProcs == 2
MaxConns == 2
MaxSubs == 1

Procs == 1..NumProcs
SeqProcs == {1}
ConcProcs == {1, 2}
ConnIds == 1..MaxConns

\* ---------------------------------------------------------------- constants
NoConn == 0
NoStream == ""
StreamName == "stream-1"
ErrDrainTimeout == "ErrDrainTimeout"
ErrOther == "ErrSlowConsumer"

ActiveStatus == {"CONNECTED", "RECONNECTING", "CONNECTING"}
DeliverSel == {{}, {"all"}, {"new"}, {"last"}}
Queues == {"", "group"}
ConnectFailAt == {"none", "connect", "js", "info", "add", "update"}

\* An address is a string, kept as the sequence of its parts so that the scheme
\* prefix can be tested and prepended: <<>> is the empty string.
Scheme == "nats://"
DefaultURL == <<Scheme, "127.0.0.1:4222">>
WithScheme == <<Scheme, "10.0.0.1:4222">>
Bare == <<"10.0.0.2:4222">>
AddrInputs == {<<>>, <<WithScheme>>, <<Bare>>, <<<<>>>>, <<Bare, <<>>, WithScheme>>}
\* natsGo.GetDefaultOptions().Servers: the default client options name no server.
natsOptsServers == <<>>

VARIABLES
  connected,    \* natsBroker.connected
  conn,         \* natsBroker.conn: NoConn (nil) or the id of a connection
  jsCtx,        \* natsBroker.jsCtx: NoConn (nil) or the id of the connection it came from
  streamInfo,   \* natsBroker.streamInfo: NoStream (nil) or the stream's name
  subscribers,  \* natsBroker.subscribers: the registered subscription handles
  drain,        \* natsBroker.drain
  streamCfg,    \* natsBroker.streamCfg.Name
  errorHandler, \* natsBroker.options.ErrorHandler # nil
  addrs,        \* natsBroker.options.Addrs
  once,         \* the embedded sync.Once: whether setOption has filled natsOpts
  tracer,       \* natsBroker.producerTracer / consumerTracer # nil
  mu,           \* the embedded sync.RWMutex: [writer, readers]
  closeCh,      \* natsBroker.closeCh: [sendq: parked senders, taken: senders whose value was received]
  pc,           \* each caller's position
  local,        \* each caller's local variables during an operation
  last,         \* each caller's last returned operation: [op, ret, via, waited]
  status,       \* the client library's status of each connection
  connCB,       \* whether the connection was opened with the lifecycle callbacks
  servers,      \* the options last handed to the client: [handed, list (opts.Servers), once]
  cbq,          \* lifecycle callbacks the client has scheduled and not yet run
  srvStream,    \* the server's state of the named stream: "absent" | "present" | "updated"
  nsubs,        \* the native subscriptions created, in order
  msg,          \* the per-message callback in progress (one delivery at a time)
  phase         \* "never" | "connected" | "disconnected": the last completed Connect/Disconnect

vars == <<connected, conn, jsCtx, streamInfo, subscribers, drain, streamCfg, errorHandler,
          addrs, once, tracer, mu, closeCh, pc, local, last, status, connCB, servers, cbq, srvStream,
          nsubs, msg, phase>>

brokerVars == <<connected, conn, jsCtx, streamInfo, subscribers, drain, streamCfg, errorHandler,
                addrs, once, tracer>>
envVars == <<status, connCB, servers, cbq, srvStream, nsubs>>
procVars == <<pc, local, last>>

\* The span of one operation: how often it was started and ended.
NoSpan == [started |-> 0, ended |-> 0]

NoLocal == [queue |-> "", deliver |-> {}, autoAck |-> TRUE, sub |-> 0, via |-> "none", waited |-> FALSE]
NoLast == [op |-> "none", ret |-> "none", via |-> <<>>, waited |-> FALSE, span |-> NoSpan]
IdleMsg == [pc |-> "idle", sub |-> 0, eh |-> FALSE, decodeOk |-> TRUE, handlerCalls |-> 0,
            ehCalls |-> 0, acks |-> 0, handlerErr |-> FALSE, ackErr |-> FALSE,
            span |-> NoSpan]

\* NewBroker: the state after construction
Init ==
  /\ connected = FALSE
  /\ conn = NoConn
  /\ jsCtx = NoConn
  /\ streamInfo = NoStream
  /\ subscribers = {}
  /\ drain = FALSE
  /\ streamCfg = NoStream
  /\ errorHandler = FALSE
  /\ addrs = <<>>
  /\ once = FALSE
  /\ tracer = FALSE
  /\ mu = [writer |-> 0, readers |-> {}]
  /\ closeCh = [sendq |-> {}, taken |-> {}]
  /\ pc = [p \in Procs |-> "idle"]
  /\ local = [p \in Procs |-> NoLocal]
  /\ last = [p \in Procs |-> NoLast]
  /\ status = [c \in ConnIds |-> "NONE"]
  /\ connCB = [c \in ConnIds |-> FALSE]
  /\ servers = [handed |-> FALSE, list |-> <<>>, once |-> FALSE]
  /\ cbq = {}
  /\ srvStream \in {"absent", "present"}
  /\ nsubs = <<>>
  /\ msg = IdleMsg
  /\ phase = "never"

\* ------------------------------------------------------------- the RWMutex
CanLock == mu.writer = 0 /\ mu.readers = {}

\* (variant: a read lock that does not wait for the writer)
CanRLock_always == TRUE

CanRLock == mu.writer = 0

Quiescent == \A p \in Procs : pc[p] \in {"idle", "panicked"}

\* The operation o of caller p returns r, having made the native call v and
\* used the span sp; a caller that dereferenced nil panics instead of returning.
ReturnSpan(p, o, r, v, sp) ==
  /\ pc' = [pc EXCEPT ![p] = IF r = "panic" THEN "panicked" ELSE "idle"]
  /\ local' = [local EXCEPT ![p] = NoLocal]
  /\ last' = [last EXCEPT ![p] = [op |-> o, ret |-> r, via |-> v, waited |-> local[p].waited,
                                   span |-> sp]]

Return(p, o, r, v) == ReturnSpan(p, o, r, v, NoSpan)

\* startProducerSpan / startConsumerSpan: a span is started when the tracer is set.
StartSpan(sp) == IF tracer THEN [sp EXCEPT !.started = @ + 1] ELSE sp

\* finishProducerSpan / finishConsumerSpan: the span is ended when the tracer is set.
FinishSpan(sp) == IF tracer THEN [sp EXCEPT !.ended = @ + 1] ELSE sp

\* ------------------------------------------------------------------- Init
\* natsBroker.Init -> setOption, then the tracers are made when tracing options
\* were given (lines 83-86): the addresses are merged; the drain key and the stream definition stay
\* in options.Context once supplied, so both are sticky across calls, as is an
\* error handler once set in options.  closeCh is
\* re-made unbuffered and nothing receives from it, so the senders already parked
\* stay parked: closeCh.sendq keeps them.
HasPrefix(addr) == Len(addr) > 0 /\ addr[1] = Scheme

\* Lines 91-107: drop the empty addresses, prepend the scheme where it is
\* missing, and fall back to the default URL when nothing is left.
setAddrs(as) ==
  LET kept == SelectSeq(as, LAMBDA a : Len(a) # 0)
      cAddrs == [i \in 1..Len(kept) |->
                   IF HasPrefix(kept[i]) THEN kept[i] ELSE <<Scheme>> \o kept[i]]
  IN IF Len(cAddrs) = 0 THEN <<DefaultURL>> ELSE cAddrs

\* Lines 110-124: an Address option replaces options.Addrs (addrOpt = <<>>: no
\* such option); an empty list is replaced by the client options' servers.
MergedAddrs(addrOpt) ==
  LET given == IF Len(addrOpt) > 0 THEN addrOpt ELSE addrs
  IN IF Len(given) = 0 THEN natsOptsServers ELSE given

\* Line 133: setAddrs is called and its result dropped; options.Addrs stays as merged.
AddrsKept(addrOpt) == MergedAddrs(addrOpt)

setOption(addrOpt, drainOpt, streamOpt, ehOpt, tracingOpt) ==
  /\ Quiescent
  /\ tracer' = (tracer \/ tracingOpt)
  /\ addrs' = AddrsKept(addrOpt)
  /\ once' = TRUE
  /\ drain' = (drain \/ drainOpt)
  /\ streamCfg' = IF streamOpt # NoStream THEN streamOpt ELSE streamCfg
  /\ errorHandler' = (errorHandler \/ ehOpt)
  /\ UNCHANGED <<connected, conn, jsCtx, streamInfo, subscribers, mu, closeCh,
                 procVars, envVars, msg, phase>>

\* ---------------------------------------------------------------- Connect
NumConns == Cardinality({c \in ConnIds : status[c] # "NONE"})

\* Lines 188-190: whether the stream lookup finds the stream (it reports
\* ErrStreamNotFound exactly when the server has no such stream).
\* (variant: a lookup that never reports not-found)
StreamFound_always == TRUE

StreamFound == srvStream # "absent"

Unchanged == [err |-> "nil", conn |-> conn, jsCtx |-> jsCtx, streamInfo |-> streamInfo,
              connected |-> connected, opened |-> NoConn, srv |-> srvStream, log |-> <<>>]

\* Lines 169-208: open a connection and set the stream up, in the order of the
\* code.  failAt names the native call that fails (if it is reached); log is the
\* sequence of native calls made.
OpenConnection(failAt) ==
  LET c == NumConns + 1 IN
  IF failAt = "connect" \/ NumConns >= MaxConns
    THEN [Unchanged EXCEPT !.err = "err", !.log = <<"Connect">>]
  ELSE IF streamCfg = NoStream
    THEN [Unchanged EXCEPT !.conn = c, !.connected = TRUE, !.opened = c, !.log = <<"Connect">>]
  ELSE IF failAt = "js"
    THEN [Unchanged EXCEPT !.err = "err", !.jsCtx = NoConn, !.opened = c,
                           !.log = <<"Connect", "JetStream">>]
  ELSE IF failAt = "info"
    THEN [Unchanged EXCEPT !.err = "err", !.jsCtx = c, !.opened = c,
                           !.log = <<"Connect", "JetStream", "StreamInfo">>]
  ELSE LET pre == IF StreamFound THEN <<"Connect", "JetStream", "StreamInfo">>
                  ELSE <<"Connect", "JetStream", "StreamInfo", "AddStream">>
           srv1 == IF StreamFound THEN srvStream ELSE "present"
       IN
       IF ~StreamFound /\ failAt = "add"
         THEN [Unchanged EXCEPT !.err = "err", !.jsCtx = c, !.opened = c, !.log = pre]
       ELSE IF failAt = "update"
         THEN [Unchanged EXCEPT !.err = "err", !.jsCtx = c, !.opened = c, !.srv = srv1,
                                !.log = Append(pre, "UpdateStream")]
       ELSE [Unchanged EXCEPT !.conn = c, !.jsCtx = c, !.streamInfo = streamCfg,
                              !.connected = TRUE, !.opened = c, !.srv = "updated",
                              !.log = Append(pre, "UpdateStream")]

\* Lines 159-162: the status Connect switches on.
\* (variant: a nil connection taken as connected)
ConnStatus_nilActive == IF conn # NoConn THEN status[conn] ELSE "CONNECTED"

ConnStatus == IF conn # NoConn THEN status[conn] ELSE "CLOSED"

\* (variant: Connect without the early returns of lines 155-167)
ConnectOutcome_reopen(failAt) == OpenConnection(failAt)

\* Lines 155-209: what Connect returns and the state it leaves behind.
ConnectOutcome(failAt) ==
  IF connected THEN Unchanged
  ELSE IF ConnStatus \in ActiveStatus THEN [Unchanged EXCEPT !.connected = TRUE]
  ELSE OpenConnection(failAt)

\* Lines 152-153: b.Lock()
ConnectLock(p) ==
  /\ pc[p] = "idle"
  /\ CanLock
  /\ mu' = [mu EXCEPT !.writer = p]
  /\ pc' = [pc EXCEPT ![p] = "connect"]
  /\ UNCHANGED <<brokerVars, closeCh, local, last, envVars, msg, phase>>

\* Lines 155-209 and the deferred Unlock.
Connect(p) ==
  /\ pc[p] = "connect"
  /\ \E failAt \in ConnectFailAt :
       LET r == ConnectOutcome(failAt) IN
       /\ connected' = r.connected
       /\ conn' = r.conn
       /\ jsCtx' = r.jsCtx
       /\ streamInfo' = r.streamInfo
       /\ srvStream' = r.srv
       /\ status' = IF r.opened # NoConn THEN [status EXCEPT ![r.opened] = "CONNECTED"] ELSE status
       /\ connCB' = IF r.opened # NoConn THEN [connCB EXCEPT ![r.opened] = drain] ELSE connCB
       /\ servers' = IF r.log # <<>> THEN [handed |-> TRUE, list |-> addrs, once |-> once] ELSE servers
       /\ phase' = IF r.err = "nil" /\ r.opened # NoConn THEN "connected" ELSE phase
       /\ Return(p, "Connect", r.err, r.log)
  /\ mu' = [mu EXCEPT !.writer = 0]
  /\ UNCHANGED <<subscribers, drain, streamCfg, errorHandler, addrs, once, tracer, closeCh, cbq, nsubs, msg>>

\* ------------------------------------------------------------- Disconnect
\* Lines 213-214: b.Lock()
DisconnectLock(p) ==
  /\ pc[p] = "idle"
  /\ CanLock
  /\ mu' = [mu EXCEPT !.writer = p]
  /\ pc' = [pc EXCEPT ![p] = "disconnect"]
  /\ UNCHANGED <<brokerVars, closeCh, local, last, envVars, msg, phase>>

\* conn.Drain(): a connected connection starts draining; in any other status the
\* call returns an error, which Disconnect discards.
Drain(c) == IF status[c] = "CONNECTED" THEN [status EXCEPT ![c] = "DRAINING"] ELSE status

\* Whether Disconnect takes the drain branch (line 216).
\* (variant: Disconnect without the drain branch)
DrainWait_never == FALSE

DrainWait == drain

\* Lines 216-221: with drain set, drain the connection and send on closeCh.  The
\* channel is unbuffered and has no receiver, so the sender parks in its send queue.
DisconnectDrain(p) ==
  /\ pc[p] = "disconnect"
  /\ local' = [local EXCEPT ![p].waited = drain]
  /\ IF DrainWait
       THEN /\ status' = IF conn # NoConn THEN Drain(conn) ELSE status
            /\ closeCh' = [closeCh EXCEPT !.sendq = @ \cup {"Disconnect"}]
            /\ pc' = [pc EXCEPT ![p] = "closeChSend"]
       ELSE /\ pc' = [pc EXCEPT ![p] = "disconnectClear"]
            /\ UNCHANGED <<status, closeCh>>
  /\ UNCHANGED <<brokerVars, mu, last, connCB, servers, cbq, srvStream, nsubs, msg, phase>>

\* conn.Close(): the connection is closed for good.
\* (variant: a Close that leaves the connection as it is)
Close_keep(c) == status

Close(c) == [status EXCEPT ![c] = "CLOSED"]

\* Lines 223-231: clear the registry, close the connection (which schedules the
\* closed-callback of a connection opened with callbacks), mark disconnected, unlock.
Disconnect(p) ==
  /\ pc[p] = "disconnectClear"
  /\ subscribers' = {}
  /\ status' = IF conn # NoConn THEN Close(conn) ELSE status
  /\ cbq' = IF conn # NoConn /\ connCB[conn] /\ status[conn] # "CLOSED"
              THEN cbq \cup {"closed"} ELSE cbq
  /\ connected' = FALSE
  /\ mu' = [mu EXCEPT !.writer = 0]
  /\ phase' = IF phase = "never" THEN phase ELSE "disconnected"
  /\ Return(p, "Disconnect", "nil", <<>>)
  /\ UNCHANGED <<conn, jsCtx, streamInfo, drain, streamCfg, errorHandler, addrs, once, tracer, closeCh,
                 connCB, servers, srvStream, nsubs, msg>>

\* ---------------------------------------------------------------- Publish
\* Lines 234-245: marshal the message (msgOk: whether the codec can encode it);
\* on failure return the codec's error, else enter publish and take the read lock.
Publish(p, msgOk) ==
  /\ pc[p] = "idle"
  /\ IF msgOk
       THEN /\ CanRLock
            /\ mu' = [mu EXCEPT !.readers = @ \cup {p}]
            /\ pc' = [pc EXCEPT ![p] = "publish"]
            /\ UNCHANGED <<local, last>>
       ELSE /\ Return(p, "Publish", "MarshalErr", <<>>)
            /\ UNCHANGED mu
  /\ UNCHANGED <<brokerVars, closeCh, envVars, msg, phase>>

\* Line 247: publish's connection check.
\* (variant: publish without the check)
PublishNotConnected_never == FALSE

PublishNotConnected == conn = NoConn

\* The native call publish makes (lines 247-276), "none" when it makes none.
\* (variant: a publish that always uses the plain connection)
PublishVia_plain == IF PublishNotConnected THEN "none" ELSE "conn.PublishMsg"

PublishVia ==
  IF PublishNotConnected THEN "none"
  ELSE IF streamInfo # NoStream THEN "js.PublishMsg" ELSE "conn.PublishMsg"

\* What a native call through connection c returns: a nil receiver panics, a
\* closed connection always errors, otherwise the client decides (ok).
NativeResult(c, ok) ==
  IF c = NoConn THEN "panic"
  ELSE IF status[c] = "CLOSED" THEN "err"
  ELSE IF ok THEN "nil" ELSE "err"

\* Lines 247-281, the deferred RUnlock included.
publish(p, ok) ==
  /\ pc[p] = "publish"
  /\ LET v == PublishVia
         r == IF v = "none" THEN "NotConnected"
              ELSE IF v = "js.PublishMsg" THEN NativeResult(jsCtx, ok)
              ELSE NativeResult(conn, ok)
         sp == IF v = "none" THEN NoSpan
               ELSE IF r = "panic" THEN StartSpan(NoSpan)
               ELSE FinishSpan(StartSpan(NoSpan))
     IN ReturnSpan(p, "Publish", r, IF v = "none" THEN <<>> ELSE <<v>>, sp)
  /\ mu' = [mu EXCEPT !.readers = @ \ {p}]
  /\ UNCHANGED <<brokerVars, closeCh, envVars, msg, phase>>

\* -------------------------------------------------------------- Subscribe
\* Line 285: Subscribe's connection check.
\* (variant: Subscribe without the check)
SubscribeNotConnected_never == FALSE

SubscribeNotConnected == conn = NoConn

\* Lines 283-297: the connection check under the read lock, then the options.
SubscribeCheck(p, queue, deliver, autoAck) ==
  /\ pc[p] = "idle"
  /\ CanRLock
  /\ IF SubscribeNotConnected
       THEN Return(p, "Subscribe", "NotConnected", <<>>)
       ELSE /\ pc' = [pc EXCEPT ![p] = "subscribe"]
            /\ local' = [local EXCEPT ![p] = [NoLocal EXCEPT !.queue = queue,
                                                !.deliver = deliver, !.autoAck = autoAck]]
            /\ UNCHANGED last
  /\ UNCHANGED <<brokerVars, mu, closeCh, envVars, msg, phase>>

\* Lines 357-368: the native subscribe options, in the order the code appends them.
SubOpts(deliver) ==
  (IF "all" \in deliver THEN <<"DeliverAll">> ELSE <<>>)
  \o (IF "new" \in deliver THEN <<"DeliverNew">> ELSE <<>>)
  \o (IF "last" \in deliver THEN <<"DeliverLast">> ELSE <<>>)

\* Lines 355-383: the native subscribe call chosen and the options passed to it.
SubscribeVia(queue, deliver) ==
  IF streamInfo # NoStream
    THEN IF Len(queue) > 0
           THEN [api |-> "js.QueueSubscribe", opts |-> SubOpts(deliver), c |-> jsCtx]
           ELSE [api |-> "js.Subscribe", opts |-> <<>>, c |-> jsCtx]
    ELSE IF Len(queue) > 0
           THEN [api |-> "conn.QueueSubscribe", opts |-> <<>>, c |-> conn]
           ELSE [api |-> "conn.Subscribe", opts |-> <<>>, c |-> conn]

\* Lines 352-390: the native subscribe call under the read lock.
SubscribeCall(p, ok) ==
  /\ pc[p] = "subscribe"
  /\ CanRLock
  /\ LET v == SubscribeVia(local[p].queue, local[p].deliver)
         r == NativeResult(v.c, ok /\ Len(nsubs) < MaxSubs)
     IN IF r = "nil"
          THEN /\ nsubs' = Append(nsubs, [conn |-> v.c, api |-> v.api, opts |-> v.opts,
                                          stream |-> streamInfo # NoStream,
                                          queue |-> local[p].queue,
                                          deliver |-> local[p].deliver,
                                          autoAck |-> local[p].autoAck])
               /\ local' = [local EXCEPT ![p].sub = Len(nsubs) + 1, ![p].via = v.api]
               /\ pc' = [pc EXCEPT ![p] = "subscribeAdd"]
               /\ UNCHANGED last
          ELSE /\ Return(p, "Subscribe", r, <<v.api>>)
               /\ UNCHANGED nsubs
  /\ UNCHANGED <<brokerVars, mu, closeCh, status, connCB, servers, cbq, srvStream,
                 msg, phase>>

\* Lines 390-394: register the handle (outside the broker lock) and return it.
Subscribe(p) ==
  /\ pc[p] = "subscribeAdd"
  /\ subscribers' = subscribers \cup {local[p].sub}
  /\ Return(p, "Subscribe", "nil", <<local[p].via>>)
  /\ UNCHANGED <<connected, conn, jsCtx, streamInfo, drain, streamCfg, errorHandler, addrs, once, tracer, mu,
                 closeCh, envVars, msg, phase>>

\* --------------------------------------------- the per-message callback fn
Live(s) == status[nsubs[s].conn] \in {"CONNECTED", "DRAINING"}
InFlight(c) == msg.pc \in {"handler", "ack"} /\ nsubs[msg.sub].conn = c

\* Lines 305-336: the callback starts its span, reads the error handler (eh), decodes the body
\* (decodeOk: whether Unmarshal succeeds); on failure it calls the error handler,
\* if set, and returns; otherwise it invokes the user handler.
\* (variant: no return after a decode failure)
Decode_fallThrough(s, decodeOk) ==
  [IdleMsg EXCEPT !.pc = "handler", !.sub = s, !.eh = errorHandler, !.decodeOk = decodeOk,
                  !.handlerCalls = 1, !.span = StartSpan(NoSpan),
                  !.ehCalls = IF ~decodeOk /\ errorHandler THEN 1 ELSE 0]

Decode(s, decodeOk) ==
  IF decodeOk
    THEN [IdleMsg EXCEPT !.pc = "handler", !.sub = s, !.eh = errorHandler, !.handlerCalls = 1,
                         !.span = StartSpan(NoSpan)]
    ELSE [IdleMsg EXCEPT !.pc = "done", !.sub = s, !.eh = errorHandler, !.decodeOk = FALSE,
                         !.span = StartSpan(NoSpan),
                         !.ehCalls = IF errorHandler THEN 1 ELSE 0]

\* The client delivers a message of subscription s: lines 305-336.
fn(s, decodeOk) ==
  /\ msg.pc \in {"idle", "done"}
  /\ s \in 1..Len(nsubs)
  /\ Live(s)
  /\ msg' = Decode(s, decodeOk)
  /\ UNCHANGED <<brokerVars, mu, closeCh, procVars, envVars, phase>>

\* Lines 336-342: the user handler returns (herr: with an error); on an error the
\* error handler, if set, is called.
fnHandler(herr) ==
  /\ msg.pc = "handler"
  /\ msg' = [msg EXCEPT !.pc = "ack", !.handlerErr = herr,
                        !.ehCalls = IF herr /\ msg.eh THEN @ + 1 ELSE @]
  /\ UNCHANGED <<brokerVars, mu, closeCh, procVars, envVars, phase>>

\* Lines 343-347: with AutoAck, acknowledge; an acknowledgement failure (ackOk
\* false, or the connection already closed) is only logged.
\* (variant: no acknowledgement after a handler error)
Ack_unlessHandlerErr(m, ackOk) ==
  IF nsubs[m.sub].autoAck /\ ~m.handlerErr
    THEN [m EXCEPT !.acks = @ + 1, !.ackErr = ~(ackOk /\ Live(m.sub))]
    ELSE m

Ack(m, ackOk) ==
  IF nsubs[m.sub].autoAck
    THEN [m EXCEPT !.acks = @ + 1, !.ackErr = ~(ackOk /\ Live(m.sub))]
    ELSE m

\* Lines 343-350: acknowledge, end the span, return.
fnAck(ackOk) ==
  /\ msg.pc = "ack"
  /\ msg' = [Ack(msg, ackOk) EXCEPT !.pc = "done", !.span = FinishSpan(@)]
  /\ UNCHANGED <<brokerVars, mu, closeCh, procVars, envVars, phase>>

\* ------------------------------------------- the client library's events
\* A draining connection closes once no callback of its subscriptions is running.
EnvDrainDone(c) ==
  /\ status[c] = "DRAINING"
  /\ ~InFlight(c)
  /\ status' = Close(c)
  /\ cbq' = IF connCB[c] THEN cbq \cup {"closed"} ELSE cbq
  /\ UNCHANGED <<brokerVars, mu, closeCh, procVars, connCB, servers, srvStream, nsubs, msg, phase>>

\* The drain times out with a callback still running: the client reports
\* ErrDrainTimeout to the async-error callback and closes the connection.
EnvDrainTimeout(c) ==
  /\ status[c] = "DRAINING"
  /\ InFlight(c)
  /\ status' = Close(c)
  /\ cbq' = IF connCB[c] THEN cbq \cup {ErrDrainTimeout, "closed"} ELSE cbq
  /\ UNCHANGED <<brokerVars, mu, closeCh, procVars, connCB, servers, srvStream, nsubs, msg, phase>>

\* The connection to the server is lost; the client starts reconnecting.
EnvDisconnected(c) ==
  /\ status[c] = "CONNECTED"
  /\ status' = [status EXCEPT ![c] = "RECONNECTING"]
  /\ cbq' = IF connCB[c] THEN cbq \cup {"disconnected"} ELSE cbq
  /\ UNCHANGED <<brokerVars, mu, closeCh, procVars, connCB, servers, srvStream, nsubs, msg, phase>>

EnvReconnected(c) ==
  /\ status[c] = "RECONNECTING"
  /\ status' = [status EXCEPT ![c] = "CONNECTED"]
  /\ UNCHANGED <<brokerVars, mu, closeCh, procVars, connCB, servers, cbq, srvStream, nsubs, msg, phase>>

\* Another asynchronous error (a slow consumer, say) is reported.
EnvAsyncError(c) ==
  /\ status[c] = "CONNECTED"
  /\ connCB[c]
  /\ cbq' = cbq \cup {ErrOther}
  /\ UNCHANGED <<brokerVars, mu, closeCh, procVars, status, connCB, servers, srvStream, nsubs, msg, phase>>

\* -------------------------------------------------- lifecycle callbacks
LifecycleCallbacks == {"onClose", "onAsyncError", "onDisconnectedError"}

\* Lines 397-399: send nil on closeCh; nothing receives, the goroutine parks.
onClose ==
  /\ "closed" \in cbq
  /\ cbq' = cbq \ {"closed"}
  /\ closeCh' = [closeCh EXCEPT !.sendq = @ \cup {"onClose"}]
  /\ UNCHANGED <<brokerVars, mu, procVars, status, connCB, servers, srvStream, nsubs, msg, phase>>

\* Lines 401-405: only ErrDrainTimeout is sent on closeCh.
onAsyncError(err) ==
  /\ err \in cbq
  /\ cbq' = cbq \ {err}
  /\ closeCh' = IF err = ErrDrainTimeout
                  THEN [closeCh EXCEPT !.sendq = @ \cup {"onAsyncError"}]
                  ELSE closeCh
  /\ UNCHANGED <<brokerVars, mu, procVars, status, connCB, servers, srvStream, nsubs, msg, phase>>

\* Lines 407-409
onDisconnectedError ==
  /\ "disconnected" \in cbq
  /\ cbq' = cbq \ {"disconnected"}
  /\ closeCh' = [closeCh EXCEPT !.sendq = @ \cup {"onDisconnectedError"}]
  /\ UNCHANGED <<brokerVars, mu, procVars, status, connCB, servers, srvStream, nsubs, msg, phase>>

\* One caller using the whole API, with every input.
Next ==
  \/ \E d \in BOOLEAN, s \in {NoStream, StreamName} : setOption(<<>>, d, s, FALSE, FALSE)
  \/ \E p \in SeqProcs : ConnectLock(p) \/ Connect(p) \/ DisconnectLock(p)
                           \/ DisconnectDrain(p) \/ Disconnect(p)
  \/ \E p \in SeqProcs, ok \in BOOLEAN : Publish(p, ok) \/ publish(p, ok) \/ SubscribeCall(p, ok)
  \/ \E p \in SeqProcs, q \in Queues, d \in DeliverSel : SubscribeCheck(p, q, d, TRUE)
  \/ \E p \in SeqProcs : Subscribe(p)

Spec == Init /\ [][Next]_vars

\* The broker in service: callers connect, subscribe and disconnect while the
\* client delivers messages, loses and closes connections and runs the callbacks.
Step(p) ==
  \/ Connect(p)
  \/ DisconnectDrain(p)
  \/ Disconnect(p)
  \/ \E ok \in BOOLEAN : SubscribeCall(p, ok)
  \/ Subscribe(p)

Deliver ==
  \/ \E herr \in BOOLEAN : fnHandler(herr)
  \/ \E ackOk \in BOOLEAN : fnAck(ackOk)

Callbacks ==
  \/ onClose
  \/ \E err \in {ErrDrainTimeout, ErrOther} : onAsyncError(err)
  \/ onDisconnectedError

DrainEnds == \E c \in ConnIds : EnvDrainDone(c) \/ EnvDrainTimeout(c)

DrainNext ==
  \/ \E d, eh \in BOOLEAN : setOption(<<>>, d, NoStream, eh, FALSE)
  \/ \E p \in SeqProcs : ConnectLock(p) \/ DisconnectLock(p)
  \/ \E p \in SeqProcs, a \in BOOLEAN : SubscribeCheck(p, "", {}, a)
  \/ \E p \in SeqProcs : Step(p)
  \/ \E s \in 1..MaxSubs, decodeOk \in BOOLEAN : fn(s, decodeOk)
  \/ Deliver
  \/ \E c \in ConnIds : EnvDisconnected(c) \/ EnvReconnected(c) \/ EnvAsyncError(c)
  \/ DrainEnds
  \/ Callbacks

DrainSpec == Init /\ [][DrainNext]_vars

\* Scheduling: every goroutine that can take its next step eventually takes it,
\* handlers return, and a drain the client started ends.
FairDrainSpec ==
  /\ DrainSpec
  /\ \A p \in SeqProcs : WF_vars(Step(p))
  /\ WF_vars(Deliver)
  /\ WF_vars(DrainEnds)
  /\ WF_vars(Callbacks)

\* One caller configuring the addresses and connecting.
AddrNext ==
  \/ \E a \in AddrInputs, s \in {NoStream, StreamName} : setOption(a, FALSE, s, FALSE, FALSE)
  \/ \E p \in SeqProcs : ConnectLock(p) \/ Connect(p) \/ DisconnectLock(p)
                           \/ DisconnectDrain(p) \/ Disconnect(p)

AddrSpec == Init /\ [][AddrNext]_vars

\* One caller publishing and subscribing, with and without tracing, while the
\* client delivers messages.
TraceNext ==
  \/ \E eh, t \in BOOLEAN : setOption(<<>>, FALSE, NoStream, eh, t)
  \/ \E p \in SeqProcs : ConnectLock(p) \/ Connect(p) \/ DisconnectLock(p)
                           \/ DisconnectDrain(p) \/ Disconnect(p) \/ Subscribe(p)
  \/ \E p \in SeqProcs, ok \in BOOLEAN : Publish(p, ok) \/ publish(p, ok) \/ SubscribeCall(p, ok)
  \/ \E p \in SeqProcs, a \in BOOLEAN : SubscribeCheck(p, "", {}, a)
  \/ \E s \in 1..MaxSubs, decodeOk \in BOOLEAN : fn(s, decodeOk)
  \/ Deliver

TraceSpec == Init /\ [][TraceNext]_vars

\* Two callers using the broker at once, without a stream definition.
ConcNext ==
  \/ \E d \in BOOLEAN : setOption(<<>>, d, NoStream, FALSE, FALSE)
  \/ \E p \in ConcProcs : ConnectLock(p) \/ Connect(p) \/ DisconnectLock(p)
                        \/ DisconnectDrain(p) \/ Disconnect(p)
  \/ \E p \in ConcProcs, ok \in BOOLEAN : Publish(p, TRUE) \/ publish(p, ok) \/ SubscribeCall(p, ok)
  \/ \E p \in ConcProcs : SubscribeCheck(p, "", {}, TRUE) \/ Subscribe(p)

ConcSpec == Init /\ [][ConcNext]_vars

\* ===================================================================== claims
Range(q) == {q[i] : i \in 1..Len(q)}
Returned(p, o) == pc[p] = "idle" /\ last[p].op = o
SignalReceived == closeCh.taken \cap LifecycleCallbacks # {}
SignalSent == closeCh.sendq \cap LifecycleCallbacks # {}

\* C1: with drain set, Disconnect is not past its drain wait (and so has not
\* returned) unless no callback of the connection's subscriptions is still running
\* and a signal sent by a lifecycle callback has been received from closeCh.
C1_DisconnectWaitsForDrain ==
  \A p \in Procs :
    /\ (pc[p] = "disconnectClear" /\ local[p].waited)
         => (~(conn # NoConn /\ InFlight(conn)) /\ SignalReceived)
    /\ (Returned(p, "Disconnect") /\ last[p].waited) => SignalReceived

C1_Witness ==
  \E p \in Procs :
    /\ pc[p] = "closeChSend"
    /\ local[p].waited
    /\ conn # NoConn
    /\ status[conn] = "DRAINING"
    /\ msg.pc = "handler"
    /\ nsubs[msg.sub].conn = conn

\* C2: with drain set, a Disconnect blocked on closeCh returns and releases the
\* lock once a lifecycle callback has sent its signal.
C2_DisconnectReturnsAfterSignal ==
  \A p \in Procs :
    (pc[p] = "closeChSend" /\ SignalSent)
      ~> (Returned(p, "Disconnect") /\ mu.writer # p)

\* C3: a Connect made while the broker is connected (or its connection reports an
\* active status) returns nil, opens no connection and leaves conn, jsCtx and
\* streamInfo unchanged.
C3_ConnectIdempotent ==
  [][\A p \in Procs :
       (pc[p] = "connect" /\ pc'[p] = "idle"
          /\ (connected \/ (conn # NoConn /\ status[conn] \in ActiveStatus)))
       => /\ last'[p].ret = "nil"
          /\ last'[p].via = <<>>
          /\ status' = status
          /\ conn' = conn
          /\ jsCtx' = jsCtx
          /\ streamInfo' = streamInfo
          /\ connected']_vars

C3_Witness ==
  \E p \in Procs :
    /\ Returned(p, "Connect")
    /\ last[p].ret = "nil"
    /\ last[p].via = <<>>
    /\ conn # NoConn
    /\ status[conn] = "CONNECTED"

\* C4 (as claimed): every Publish made before any Connect has succeeded fails
\* with NotConnected and makes no native publish call.
C4_PublishBeforeConnectNotConnected ==
  \A p \in Procs :
    (Returned(p, "Publish") /\ phase = "never")
      => (last[p].ret = "NotConnected" /\ last[p].via = <<>>)

\* C4 (amended): every Publish made before any Connect has succeeded fails, with
\* NotConnected or, when the message cannot be encoded, with the codec's error,
\* and makes no native publish call.
C4_PublishBeforeConnectFails ==
  \A p \in Procs :
    /\ (Returned(p, "Publish") /\ phase = "never")
         => (last[p].ret \in {"NotConnected", "MarshalErr"} /\ last[p].via = <<>>)
    /\ (pc[p] = "publish" /\ phase = "never") => (PublishVia = "none")

C4_Witness ==
  \E p \in Procs :
    Returned(p, "Publish") /\ phase = "never" /\ last[p].ret = "NotConnected"

\* C5: a Subscribe made before any Connect has succeeded fails with NotConnected,
\* creates no native subscription and leaves the registry as it was (empty).
C5_SubscribeBeforeConnect ==
  /\ \A p \in Procs :
       /\ (Returned(p, "Subscribe") /\ phase = "never")
            => (last[p].ret = "NotConnected" /\ last[p].via = <<>>)
       /\ phase = "never" => pc[p] \notin {"subscribe", "subscribeAdd"}
  /\ phase = "never" => (nsubs = <<>> /\ subscribers = {})

C5_Witness ==
  \E p \in Procs :
    Returned(p, "Subscribe") /\ phase = "never" /\ last[p].ret = "NotConnected"

\* C6: after a Disconnect that followed a successful Connect, and until a Connect
\* succeeds again, every Publish (of an encodable message) and every Subscribe
\* fails with NotConnected and makes no native call.
C6_NotConnectedAfterDisconnect ==
  \A p \in Procs :
    (phase = "disconnected" /\ pc[p] = "idle" /\ last[p].op \in {"Publish", "Subscribe"}
       /\ last[p].ret # "MarshalErr")
      => (last[p].ret = "NotConnected" /\ last[p].via = <<>>)

\* C7: with a stream definition, the native calls of a Connect that opens a
\* connection are, in this order, JetStream, StreamInfo, AddStream exactly when
\* the lookup did not find the stream, and UpdateStream, cut short at the first
\* call that fails; Connect succeeds only after all of them; streamInfo is
\* assigned only by a Connect whose UpdateStream succeeded; so whenever
\* streamInfo is set the server's stream exists and has been updated.
SetupCalls(found) ==
  IF found THEN <<"Connect", "JetStream", "StreamInfo", "UpdateStream">>
  ELSE <<"Connect", "JetStream", "StreamInfo", "AddStream", "UpdateStream">>

IsPrefix(a, b) == Len(a) <= Len(b) /\ SubSeq(b, 1, Len(a)) = a

C7_StreamSetupOrder ==
  /\ [](streamInfo # NoStream => srvStream = "updated")
  /\ [][\A p \in Procs :
          (pc[p] = "connect" /\ pc'[p] = "idle" /\ streamCfg # NoStream
             /\ last'[p].via # <<>>)
          => LET calls == SetupCalls(srvStream # "absent") IN
             /\ IsPrefix(last'[p].via, calls)
             /\ last'[p].ret = "nil"
                  => /\ last'[p].via = calls
                     /\ streamInfo' = streamCfg
                     /\ jsCtx' = conn'
                     /\ srvStream' = "updated"
             /\ last'[p].ret # "nil" => streamInfo' = streamInfo]_vars
  /\ [][streamInfo' # streamInfo
          => \E p \in Procs : /\ pc[p] = "connect"
                              /\ last'[p].ret = "nil"
                              /\ "UpdateStream" \in Range(last'[p].via)]_vars

C7_Witness ==
  \E p \in Procs :
    /\ Returned(p, "Connect")
    /\ last[p].ret = "nil"
    /\ last[p].via = SetupCalls(FALSE)
    /\ streamInfo = StreamName
    /\ srvStream = "updated"

\* C8: in stream mode every native subscribe call is passed the native option of
\* each delivery-position option supplied, with a queue name or without; and a
\* non-empty queue name selects the queue subscribe call, an empty one the plain
\* subscribe call, on both paths.
NativeOption(d) ==
  CASE d = "all" -> "DeliverAll"
    [] d = "new" -> "DeliverNew"
    [] d = "last" -> "DeliverLast"

C8_DeliverOptionsPassed ==
  \A i \in 1..Len(nsubs) :
    LET s == nsubs[i] IN
    /\ s.stream => Range(s.opts) = {NativeOption(d) : d \in s.deliver}
    /\ s.api = (IF s.stream
                  THEN (IF s.queue # "" THEN "js.QueueSubscribe" ELSE "js.Subscribe")
                  ELSE (IF s.queue # "" THEN "conn.QueueSubscribe" ELSE "conn.Subscribe"))

\* C9: a message whose body fails to decode gets the error handler called exactly
\* once if one is set (never otherwise), no handler call and no acknowledgement,
\* whatever AutoAck is.
C9_DecodeFailure ==
  ~msg.decodeOk =>
    /\ msg.pc = "done"
    /\ msg.ehCalls = (IF msg.eh THEN 1 ELSE 0)
    /\ msg.handlerCalls = 0
    /\ msg.acks = 0

C9_Witness ==
  /\ msg.pc = "done"
  /\ ~msg.decodeOk
  /\ msg.eh
  /\ msg.ehCalls = 1
  /\ nsubs[msg.sub].autoAck

\* C10: a message that decodes gets the handler called exactly once, then the
\* error handler if the handler failed and one is set, and only then the
\* acknowledgement: once with AutoAck, never without; an acknowledgement failure
\* calls no error handler and the callback still ends.
C10_HandlerThenAck ==
  (msg.pc # "idle" /\ msg.decodeOk) =>
    /\ msg.handlerCalls = 1
    /\ msg.pc = "handler" => (msg.acks = 0 /\ msg.ehCalls = 0)
    /\ msg.pc = "ack" =>
         (msg.acks = 0 /\ msg.ehCalls = (IF msg.handlerErr /\ msg.eh THEN 1 ELSE 0))
    /\ msg.pc = "done" =>
         /\ msg.acks = (IF nsubs[msg.sub].autoAck THEN 1 ELSE 0)
         /\ msg.ehCalls = (IF msg.handlerErr /\ msg.eh THEN 1 ELSE 0)
    /\ msg.ackErr => msg.pc = "done"

C10_Witness ==
  /\ msg.pc = "done"
  /\ msg.decodeOk
  /\ msg.handlerErr
  /\ msg.eh
  /\ msg.ehCalls = 1
  /\ msg.acks = 1
  /\ msg.ackErr

\* C11: a caller inside Connect or Disconnect holds the lock alone: no other
\* caller is inside Connect, Disconnect or publish's critical section, and every
\* native publish call is made with no writer holding the lock; several callers
\* can be inside publish's critical section together.
InWriter(p) == pc[p] \in {"connect", "disconnect", "closeChSend", "disconnectClear"}

C11_WriterExcludesPublish ==
  /\ [](\A p \in Procs :
          /\ InWriter(p) => /\ mu.writer = p
                            /\ mu.readers = {}
                            /\ \A q \in Procs \ {p} : ~InWriter(q) /\ pc[q] # "publish"
          /\ pc[p] = "publish" => (p \in mu.readers /\ mu.writer = 0))
  /\ [][\A p \in Procs :
          (pc[p] = "publish" /\ pc'[p] # "publish" /\ last'[p].via # <<>>)
            => (mu.writer = 0 /\ \A q \in Procs : ~InWriter(q))]_vars

C11_Witness ==
  \E p, q \in Procs :
    /\ p # q
    /\ pc[p] = "publish"
    /\ pc[q] = "publish"
    /\ {p, q} \subseteq mu.readers
    /\ conn # NoConn
    /\ \E r \in Procs : last[r].op = "Disconnect"

\* C12: with drain set, when exactly one lifecycle callback fires during a
\* Disconnect, its send on closeCh is received and the callback returns.
C12_SingleCallbackReturns ==
  \A cb \in LifecycleCallbacks :
    (/\ drain
     /\ \E p \in Procs : pc[p] = "closeChSend"
     /\ closeCh.sendq \cap LifecycleCallbacks = {cb}
     /\ cbq = {})
      ~> (cb \in closeCh.taken /\ cb \notin closeCh.sendq)

\* C13: every Disconnect that returns leaves the registry empty, the stored
\* connection (if any) closed and the broker not connected, and returns nil;
\* a Disconnect started in that state changes nothing of the broker or of the
\* connections.
Disconnected ==
  /\ subscribers = {}
  /\ ~connected
  /\ conn # NoConn => status[conn] = "CLOSED"

C13_DisconnectClears ==
  /\ [](\A p \in Procs : Returned(p, "Disconnect") => last[p].ret = "nil")
  /\ [][\A p \in Procs :
          (pc[p] = "disconnectClear" /\ pc'[p] = "idle")
            => /\ Disconnected'
               /\ last'[p].op = "Disconnect"
               /\ last'[p].ret = "nil"
               /\ conn' = conn
               /\ Disconnected => (brokerVars' = brokerVars /\ status' = status)]_vars

C13_Witness ==
  \E p \in Procs :
    /\ Returned(p, "Disconnect")
    /\ Len(nsubs) > 0
    /\ Disconnected
    /\ conn # NoConn
    /\ phase = "disconnected"

\* C14: after Init, the server list Connect hands to the client holds only
\* non-empty addresses that start with the scheme prefix, and is the single
\* default URL when no address was supplied.
C14_ServersNormalised ==
  /\ []((servers.handed /\ servers.once) =>
          \A i \in 1..Len(servers.list) :
            Len(servers.list[i]) > 0 /\ HasPrefix(servers.list[i]))
  /\ [][\A p \in Procs :
          (pc[p] = "connect" /\ last'[p].via # <<>> /\ once)
            => /\ servers'.list = setAddrs(addrs)
               /\ addrs = <<>> => servers'.list = <<DefaultURL>>]_vars

\* A step in which caller p's Publish returns.
PublishReturns(p) ==
  \/ pc[p] = "publish" /\ pc'[p] # "publish"
  \/ pc[p] = "idle" /\ pc'[p] = "idle" /\ last'[p] # last[p] /\ last'[p].op = "Publish"

\* C15 (as claimed): every Publish on a connected broker makes exactly one native
\* publish call, through the stream context exactly when a stream definition was
\* supplied, and returns that call's outcome.
C15_PublishOneCall ==
  [][\A p \in Procs :
       (PublishReturns(p) /\ connected)
         => /\ last'[p].via = <<IF streamCfg # NoStream THEN "js.PublishMsg"
                                ELSE "conn.PublishMsg">>
            /\ last'[p].ret \in {"nil", "err"}]_vars

\* C15 (amended): a Publish on a connected broker of a message the codec can
\* encode makes exactly one native publish call, through the stream context
\* exactly when the stream descriptor is set, and returns that call's outcome;
\* a message the codec cannot encode makes no call and returns the codec's error.
C15_PublishOneCallIfEncoded ==
  /\ [](streamInfo # NoStream => streamCfg # NoStream)
  /\ [][\A p \in Procs :
          (PublishReturns(p) /\ connected)
            => IF pc[p] = "idle"
                 THEN last'[p].ret = "MarshalErr" /\ last'[p].via = <<>>
                 ELSE /\ last'[p].via = <<IF streamInfo # NoStream THEN "js.PublishMsg"
                                          ELSE "conn.PublishMsg">>
                      /\ last'[p].ret \in {"nil", "err"}
                      /\ (streamInfo # NoStream) => jsCtx = conn]_vars

C15_Witness ==
  \E p \in Procs :
    /\ Returned(p, "Publish")
    /\ connected
    /\ last[p].via = <<"js.PublishMsg">>
    /\ last[p].ret = "nil"
    /\ streamInfo = StreamName

\* C16: a Connect that fails returns the error and leaves the broker not
\* connected, with conn, jsCtx and streamInfo as they were before the call.
C16_FailedConnectKeepsState ==
  [][\A p \in Procs :
       (pc[p] = "connect" /\ pc'[p] = "idle" /\ last'[p].ret # "nil")
         => /\ last'[p].ret = "err"
            /\ ~connected'
            /\ conn' = conn
            /\ jsCtx' = jsCtx
            /\ streamInfo' = streamInfo]_vars

\* C17: every span started by Publish or by the per-message callback has been
\* ended exactly once when the operation has returned, on every path.
SpanEnded(sp) == sp.ended = sp.started /\ sp.started <= 1

C17_SpansEnded ==
  /\ \A p \in Procs : Returned(p, "Publish") => SpanEnded(last[p].span)
  /\ msg.pc = "done" => SpanEnded(msg.span)

\* C18: in every reachable state a set streamInfo comes with a jsCtx that is not
\* nil and was obtained from the stored connection, and no Publish or Subscribe
\* dereferences a nil jsCtx.
C18_StreamContextOfConn ==
  /\ streamInfo # NoStream => (jsCtx # NoConn /\ jsCtx = conn)
  /\ \A p \in Procs : pc[p] # "panicked"

\* C19: without drain, once a Disconnect has returned and no Subscribe is in
\* progress, the registry is empty until a Connect succeeds again.
C19_RegistryEmptyAfterDisconnect ==
  (/\ ~drain
   /\ phase = "disconnected"
   /\ \A p \in Procs : pc[p] \notin {"subscribe", "subscribeAdd"})
    => subscribers = {}

\* C20: whenever connected is true conn is not nil; connected becomes true only
\* in a step of Connect and false only in a step of Disconnect.
C20_ConnectedHasConn ==
  /\ [](connected => conn # NoConn)
  /\ [][(~connected /\ connected') => \E p \in Procs : pc[p] = "connect"]_vars
  /\ [][(connected /\ ~connected') => \E p \in Procs : pc[p] = "disconnectClear"]_vars

C20_Witness ==
  /\ connected
  /\ conn # NoConn
  /\ phase = "connected"
  /\ \E p \in Procs : Returned(p, "Connect") /\ last[p].ret = "nil"
  /\ \E c \in ConnIds : c # conn /\ status[c] = "CLOSED"

====
